---- MODULE Spec2Model ----
(***************************************************************************)
(* Model of solutio::Tasmip (Library/Imaging/Tasmip.hpp): the TASMIP       *)
(* tungsten-anode x-ray spectrum generator.                                *)
(*                                                                         *)
(* Real numbers.  The routine computes in double precision; the model      *)
(* computes the same expressions in exact arithmetic.  A number is held as *)
(* an integer count of units of 1/Scale, Scale = 10^DecimalPlaces *        *)
(* 2^AttenShift, written in four limbs of base LimbBase (low limb first,   *)
(* low limbs in 0..LimbBase-1, top limb signed), so that every product     *)
(* stays inside TLC's 32-bit integers.  A spectrum entry is a pair         *)
(* <<num, den>> of such numbers meaning num/den; den = Zero encodes the    *)
(* IEEE-754 results of a division by zero (0/0 = NaN, x/0 = +-Inf).        *)
(*                                                                         *)
(* exp().  The attenuation provider answers in units of ln 2 per cm, so    *)
(* exp(-mu*mm*0.1) is the exact power of two 2^-(mu*mm/10).                *)
(***************************************************************************)
EXTENDS Integers, Sequences, FiniteSets, TLC

----------------------------------------------------------------------------
(* Exact arithmetic on limb numbers                                        *)

LimbBase == 10^6

Zero == <<0, 0, 0, 0>>

\* Carry propagation: low limbs back into 0..LimbBase-1, top limb signed.
Norm(x) ==
    LET t1 == x[2] + (x[1] \div LimbBase)
        t2 == x[3] + (t1 \div LimbBase)
        t3 == x[4] + (t2 \div LimbBase)
    IN  <<x[1] % LimbBase, t1 % LimbBase, t2 % LimbBase, t3>>

Add(x, y) == Norm(<<x[1] + y[1], x[2] + y[2], x[3] + y[3], x[4] + y[4]>>)

\* x * k for a small integer k (|k| * LimbBase stays below 2^31).
MulInt(x, k) == Norm(<<x[1] * k, x[2] * k, x[3] * k, x[4] * k>>)

\* x / 2.0 (every number the routine halves is an even count of units).
Half(x) ==
    LET q4 == x[4] \div 2
        a3 == (x[4] % 2) * LimbBase + x[3]
        a2 == (a3 % 2) * LimbBase + x[2]
        a1 == (a2 % 2) * LimbBase + x[1]
    IN  <<a1 \div 2, a2 \div 2, a3 \div 2, q4>>

Sign(x) == IF x[4] < 0 THEN -1 ELSE IF x = Zero THEN 0 ELSE 1

RECURSIVE MulPow(_, _, _)
\* x * k^t by t multiplications: coefficient * pow(tube_potential, t).
MulPow(x, k, t) == IF t = 0 THEN x ELSE MulPow(MulInt(x, k), k, t - 1)

----------------------------------------------------------------------------
(* Program constants and the embedded TASMIP tables                        *)

\* int num_polynomial_terms[151]: the number of 1 keV energy bins.
NumBins == 151

\* polynomial_coefficients[4*151]: coefficients stored per bin.
MaxTerms == 4

\* energy = double(n) / 1000.0: keV per MeV.
KeVPerMeV == 1000

\* mm_filtration*0.1: millimetres per centimetre.
MmPerCm == 10

\* int num_polynomial_terms[151]; bin n is element n + 1 of the tuple.
num_polynomial_terms == <<
    0,0,0,0,0,0,0,0,0,0,3,4,4,4,4,4,4,4,4,4,4,4,4,4,4,4,4,4,4,4,
    4,4,4,4,4,4,4,4,4,4,4,4,4,4,4,4,4,4,4,4,4,4,4,4,4,4,4,4,4,4,
    4,4,4,4,4,4,4,4,4,4,4,4,4,4,4,4,4,4,4,4,4,4,4,3,3,3,3,3,3,3,
    3,3,3,3,3,3,3,3,3,3,3,3,3,3,3,3,3,3,3,3,3,3,3,3,3,3,3,3,3,3,
    3,3,3,2,2,2,2,2,2,1,2,1,2,1,1,1,1,1,1,1,1,0,0,0,0,0,0,0,0,0,0
>>

\* double polynomial_coefficients[4*151], four per bin, each decimal literal
\* written <<m, e>> for m * 10^-e; element k of the array is element k + 1.
polynomial_coefficients == <<
    <<0,0>>, <<0,0>>, <<0,0>>, <<0,0>>,
    <<0,0>>, <<0,0>>, <<0,0>>, <<0,0>>,
    <<0,0>>, <<0,0>>, <<0,0>>, <<0,0>>,
    <<0,0>>, <<0,0>>, <<0,0>>, <<0,0>>,
    <<0,0>>, <<0,0>>, <<0,0>>, <<0,0>>,
    <<0,0>>, <<0,0>>, <<0,0>>, <<0,0>>,
    <<0,0>>, <<0,0>>, <<0,0>>, <<0,0>>,
    <<0,0>>, <<0,0>>, <<0,0>>, <<0,0>>,
    <<0,0>>, <<0,0>>, <<0,0>>, <<0,0>>,
    <<0,0>>, <<0,0>>, <<0,0>>, <<0,0>>,
    <<-247098,5>>, <<752249,7>>, <<16013,8>>, <<0,0>>,
    <<-546852,4>>, <<282597,5>>, <<-370259,7>>, <<168545,9>>,
    <<-114966,3>>, <<718167,5>>, <<-104151,6>>, <<524694,9>>,
    <<-202312,4>>, <<752303,5>>, <<-972592,7>>, <<526235,9>>,
    <<344016,3>>, <<317957,5>>, <<-330693,7>>, <<311553,9>>,
    <<549329,3>>, <<150793,4>>, <<-965665,7>>, <<514238,9>>,
    <<103255,2>>, <<279346,4>>, <<-151778,6>>, <<649103,9>>,
    <<105684,2>>, <<530529,4>>, <<400621,7>>, <<-716451,9>>,
    <<109884,2>>, <<8295,2>>, <<306165,6>>, <<-261713,8>>,
    <<495798,3>>, <<147004,3>>, <<-110282,6>>, <<-135451,8>>,
    <<-143783,3>>, <<22291,2>>, <<-620631,6>>, <<189685,9>>,
    <<-110666,2>>, <<27705,2>>, <<-574362,6>>, <<-106621,8>>,
    <<-228177,2>>, <<342442,3>>, <<-579332,6>>, <<-230358,8>>,
    <<-559172,2>>, <<472413,3>>, <<-142996,5>>, <<504908,9>>,
    <<-934054,2>>, <<618637,3>>, <<-240787,5>>, <<370171,8>>,
    <<-14065,0>>, <<776049,3>>, <<-34304,4>>, <<664641,8>>,
    <<-192032,1>>, <<941867,3>>, <<-454481,5>>, <<992016,8>>,
    <<-251595,1>>, <<113091,2>>, <<-599764,5>>, <<144155,7>>,
    <<-315193,1>>, <<133112,2>>, <<-755688,5>>, <<19258,6>>,
    <<-316594,1>>, <<129312,2>>, <<-662524,5>>, <<159367,7>>,
    <<-31977,0>>, <<125943,2>>, <<-572172,5>>, <<126961,7>>,
    <<-31502,0>>, <<121302,2>>, <<-49954,4>>, <<106863,7>>,
    <<-340454,1>>, <<127328,2>>, <<-544075,5>>, <<127505,7>>,
    <<-352575,1>>, <<126717,2>>, <<-505259,5>>, <<114025,7>>,
    <<-36598,0>>, <<126449,2>>, <<-469822,5>>, <<101743,7>>,
    <<-393552,1>>, <<132572,2>>, <<-526013,5>>, <<125117,7>>,
    <<-423945,1>>, <<139668,2>>, <<-596159,5>>, <<153918,7>>,
    <<-450548,1>>, <<14453,1>>, <<-632455,5>>, <<165782,7>>,
    <<-480744,1>>, <<150653,2>>, <<-684101,5>>, <<183228,7>>,
    <<-477218,1>>, <<145501,2>>, <<-618372,5>>, <<160985,7>>,
    <<-468726,1>>, <<138359,2>>, <<-529642,5>>, <<130534,7>>,
    <<-45340,0>>, <<130446,2>>, <<-445863,5>>, <<102913,7>>,
    <<-472967,1>>, <<13373,1>>, <<-476811,5>>, <<112984,7>>,
    <<-459216,1>>, <<123985,2>>, <<-36517,4>>, <<750512,8>>,
    <<-441762,1>>, <<113155,2>>, <<-24227,4>>, <<334071,8>>,
    <<-497532,1>>, <<130791,2>>, <<-44909,4>>, <<109328,7>>,
    <<-561319,1>>, <<151197,2>>, <<-68753,4>>, <<196294,7>>,
    <<-552407,1>>, <<142187,2>>, <<-566911,5>>, <<148764,7>>,
    <<-544994,1>>, <<133732,2>>, <<-452793,5>>, <<103572,7>>,
    <<-588419,1>>, <<147883,2>>, <<-629327,5>>, <<168762,7>>,
    <<-631098,1>>, <<161622,2>>, <<-800933,5>>, <<232159,7>>,
    <<-599559,1>>, <<149668,2>>, <<-690603,5>>, <<197785,7>>,
    <<-59641,0>>, <<14567,1>>, <<-653432,5>>, <<185367,7>>,
    <<-613255,1>>, <<148914,2>>, <<-69568,4>>, <<200507,7>>,
    <<-630489,1>>, <<152243,2>>, <<-739089,5>>, <<216112,7>>,
    <<-599434,1>>, <<138087,2>>, <<-583974,5>>, <<161994,7>>,
    <<-561087,1>>, <<121827,2>>, <<-40921,4>>, <<101841,7>>,
    <<-182573,1>>, <<-138212,3>>, <<955782,5>>, <<-214005,7>>,
    <<222002,1>>, <<-156866,2>>, <<238981,4>>, <<-550569,7>>,
    <<550171,1>>, <<-272116,2>>, <<35278,3>>, <<-80474,6>>,
    <<892294,1>>, <<-391585,2>>, <<470499,4>>, <<-107056,6>>,
    <<210499,1>>, <<-155736,2>>, <<232189,4>>, <<-513497,7>>,
    <<-507652,1>>, <<903221,3>>, <<-157983,5>>, <<73063,7>>,
    <<-603079,1>>, <<120207,2>>, <<-455231,5>>, <<141953,7>>,
    <<-698499,1>>, <<149985,2>>, <<-751309,5>>, <<21038,6>>,
    <<-710864,1>>, <<150731,2>>, <<-747214,5>>, <<20248,6>>,
    <<-732754,1>>, <<154089,2>>, <<-768993,5>>, <<202855,7>>,
    <<-316118,1>>, <<129777,3>>, <<639248,5>>, <<-169374,7>>,
    <<10363,0>>, <<-128801,2>>, <<205198,4>>, <<-54239,6>>,
    <<-413249,1>>, <<44209,2>>, <<24486,4>>, <<220225,10>>,
    <<-998314,1>>, <<235114,2>>, <<-172219,4>>, <<589682,7>>,
    <<-834583,1>>, <<182026,2>>, <<-114076,4>>, <<347451,7>>,
    <<-603805,1>>, <<109914,2>>, <<-383639,5>>, <<521521,8>>,
    <<-733223,1>>, <<147274,2>>, <<-748113,5>>, <<164473,7>>,
    <<-886689,1>>, <<191174,2>>, <<-117274,4>>, <<29487,6>>,
    <<-890628,1>>, <<190369,2>>, <<-116664,4>>, <<295337,7>>,
    <<-912208,1>>, <<194991,2>>, <<-12124,3>>, <<311903,7>>,
    <<-919592,1>>, <<195664,2>>, <<-122202,4>>, <<315568,7>>,
    <<-93935,0>>, <<199757,2>>, <<-126445,4>>, <<329425,7>>,
    <<-946059,1>>, <<198557,2>>, <<-124063,4>>, <<318846,7>>,
    <<-946591,1>>, <<194731,2>>, <<-119191,4>>, <<300554,7>>,
    <<-105496,0>>, <<228774,2>>, <<-154656,4>>, <<419277,7>>,
    <<-112882,0>>, <<252328,2>>, <<-180638,4>>, <<509944,7>>,
    <<-565238,1>>, <<846081,3>>, <<-18903,4>>, <<0,0>>,
    <<-625311,1>>, <<954621,3>>, <<-242146,5>>, <<0,0>>,
    <<-606325,1>>, <<909326,3>>, <<-222283,5>>, <<0,0>>,
    <<-583909,1>>, <<858149,3>>, <<-199938,5>>, <<0,0>>,
    <<-617744,1>>, <<909695,3>>, <<-221962,5>>, <<0,0>>,
    <<-655134,1>>, <<967438,3>>, <<-246616,5>>, <<0,0>>,
    <<-648211,1>>, <<946375,3>>, <<-238406,5>>, <<0,0>>,
    <<-639659,1>>, <<922536,3>>, <<-229053,5>>, <<0,0>>,
    <<-597638,1>>, <<838469,3>>, <<-191813,5>>, <<0,0>>,
    <<-548324,1>>, <<741841,3>>, <<-149268,5>>, <<0,0>>,
    <<-554591,1>>, <<739222,3>>, <<-146675,5>>, <<0,0>>,
    <<-519187,1>>, <<667713,3>>, <<-115944,5>>, <<0,0>>,
    <<-533726,1>>, <<686444,3>>, <<-124856,5>>, <<0,0>>,
    <<-549971,1>>, <<708082,3>>, <<-134986,5>>, <<0,0>>,
    <<-610986,1>>, <<810304,3>>, <<-180524,5>>, <<0,0>>,
    <<-678031,1>>, <<922439,3>>, <<-230102,5>>, <<0,0>>,
    <<-646357,1>>, <<853616,3>>, <<-198054,5>>, <<0,0>>,
    <<-614232,1>>, <<784198,3>>, <<-165825,5>>, <<0,0>>,
    <<-654257,1>>, <<855126,3>>, <<-199914,5>>, <<0,0>>,
    <<-685022,1>>, <<91044,2>>, <<-227525,5>>, <<0,0>>,
    <<-677518,1>>, <<873305,3>>, <<-205065,5>>, <<0,0>>,
    <<-567099,1>>, <<671731,3>>, <<-117464,5>>, <<0,0>>,
    <<-643116,1>>, <<798217,3>>, <<-173021,5>>, <<0,0>>,
    <<-728478,1>>, <<939704,3>>, <<-234536,5>>, <<0,0>>,
    <<-729637,1>>, <<937042,3>>, <<-234909,5>>, <<0,0>>,
    <<-725197,1>>, <<92569,2>>, <<-231858,5>>, <<0,0>>,
    <<-737379,1>>, <<938756,3>>, <<-237174,5>>, <<0,0>>,
    <<-752214,1>>, <<955706,3>>, <<-244056,5>>, <<0,0>>,
    <<-664501,1>>, <<812994,3>>, <<-189208,5>>, <<0,0>>,
    <<-539172,1>>, <<611114,3>>, <<-11108,4>>, <<0,0>>,
    <<-695011,1>>, <<838185,3>>, <<-194384,5>>, <<0,0>>,
    <<-765684,1>>, <<934029,3>>, <<-22728,4>>, <<0,0>>,
    <<-716982,1>>, <<856269,3>>, <<-199406,5>>, <<0,0>>,
    <<-630765,1>>, <<71995,2>>, <<-149034,5>>, <<0,0>>,
    <<-68961,0>>, <<801466,3>>, <<-178594,5>>, <<0,0>>,
    <<-79488,0>>, <<954546,3>>, <<-235645,5>>, <<0,0>>,
    <<-803894,1>>, <<960394,3>>, <<-236806,5>>, <<0,0>>,
    <<-818655,1>>, <<974475,3>>, <<-241113,5>>, <<0,0>>,
    <<-812723,1>>, <<978439,3>>, <<-250146,5>>, <<0,0>>,
    <<-644785,1>>, <<732755,3>>, <<-163899,5>>, <<0,0>>,
    <<-380698,1>>, <<313166,3>>, <<0,0>>, <<0,0>>,
    <<-379781,1>>, <<310109,3>>, <<0,0>>, <<0,0>>,
    <<-402339,1>>, <<325521,3>>, <<0,0>>, <<0,0>>,
    <<-428094,1>>, <<343283,3>>, <<0,0>>, <<0,0>>,
    <<-411467,1>>, <<327276,3>>, <<0,0>>, <<0,0>>,
    <<-392597,1>>, <<309655,3>>, <<0,0>>, <<0,0>>,
    <<319165,3>>, <<0,0>>, <<0,0>>, <<0,0>>,
    <<-44258,0>>, <<34254,2>>, <<0,0>>, <<0,0>>,
    <<811561,4>>, <<0,0>>, <<0,0>>, <<0,0>>,
    <<-386799,1>>, <<296981,3>>, <<0,0>>, <<0,0>>,
    <<130671,2>>, <<0,0>>, <<0,0>>, <<0,0>>,
    <<115342,2>>, <<0,0>>, <<0,0>>, <<0,0>>,
    <<981706,3>>, <<0,0>>, <<0,0>>, <<0,0>>,
    <<809966,3>>, <<0,0>>, <<0,0>>, <<0,0>>,
    <<668884,3>>, <<0,0>>, <<0,0>>, <<0,0>>,
    <<527781,3>>, <<0,0>>, <<0,0>>, <<0,0>>,
    <<349834,3>>, <<0,0>>, <<0,0>>, <<0,0>>,
    <<171861,3>>, <<0,0>>, <<0,0>>, <<0,0>>,
    <<0,0>>, <<0,0>>, <<0,0>>, <<0,0>>,
    <<0,0>>, <<0,0>>, <<0,0>>, <<0,0>>,
    <<0,0>>, <<0,0>>, <<0,0>>, <<0,0>>,
    <<0,0>>, <<0,0>>, <<0,0>>, <<0,0>>,
    <<0,0>>, <<0,0>>, <<0,0>>, <<0,0>>,
    <<0,0>>, <<0,0>>, <<0,0>>, <<0,0>>,
    <<0,0>>, <<0,0>>, <<0,0>>, <<0,0>>,
    <<0,0>>, <<0,0>>, <<0,0>>, <<0,0>>,
    <<0,0>>, <<0,0>>, <<0,0>>, <<0,0>>,
    <<0,0>>, <<0,0>>, <<0,0>>, <<0,0>>
>>

\* Decimal places kept: the finest literal (2.20225e-05) has 10, and one more
\* makes every number even, so that /2.0 is exact.
DecimalPlaces == 10 + 1

\* The literal <<m, e>> as a number of 10^-DecimalPlaces units.
FromDecimal(lit) == MulPow(Norm(<<lit[1], 0, 0, 0>>), 10, DecimalPlaces - lit[2])

CoefTable == [k \in 0 .. (MaxTerms * NumBins - 1) |-> FromDecimal(polynomial_coefficients[k + 1])]

----------------------------------------------------------------------------
(* Bounds of the model                                                     *)

\* Tube potentials -NegPotentials .. MaxPotential, and FarPotential.
NegPotentials == 1
MaxPotential == 151
FarPotential == 200

\* Filtration thicknesses are whole centimetres, -MaxFiltrationCm .. MaxFiltrationCm.
MaxFiltrationCm == 1

----------------------------------------------------------------------------
(* NistPad, the attenuation provider (Physics/NistPad.hpp)                 *)

DataFolder == "nist"

\* Materials the data folder holds, with the lowest tabulated energy in keV.
LowestKeV == [Al |-> 1, Sn |-> 30]

HighestMeV == 20

\* Construction NistPad(folder, material) finds the material's table.
Resolves(fold, material) == fold = DataFolder /\ material \in DOMAIN LowestKeV

\* energy is a pair <<a, b>> meaning a/b MeV.
Supported(material, energy) ==
    /\ energy[1] * KeVPerMeV >= LowestKeV[material] * energy[2]
    /\ energy[1] <= HighestMeV * energy[2]

\* LinearAttenuation(energy) in units of ln 2 per cm: 2 below 50 keV, else 1.
LinearAttenuation(material, energy) ==
    IF energy[1] * KeVPerMeV < 50 * energy[2] THEN 2 ELSE 1

----------------------------------------------------------------------------
(* Values                                                                  *)

\* Largest mu * cm the model meets: numbers carry 2^AttenShift as well.
AttenShift == 2 * MaxFiltrationCm

\* 1.0 in units of 1/Scale.
One == MulPow(FromDecimal(<<1, 0>>), 2, AttenShift)

\* A double holding the finite number x.
Finite(x) == <<x, One>>

IsFinite(v) == v[2] # Zero
IsZero(v) == v[2] # Zero /\ v[1] = Zero
IsNegative(v) == v[2] # Zero /\ Sign(v[1]) * Sign(v[2]) < 0

\* v / s in IEEE-754: a zero divisor gives NaN or an infinity.  Every entry
\* divided is a pre-normalization entry, of denominator One.
Divide(v, s) == <<v[1], s>>

----------------------------------------------------------------------------
(* Tasmip(tube_potential, mm_filtration, filter_material, folder)          *)

\* Two invocations; the second runs only under SpecPar.
Inv == {1, 2}

VARIABLES
    request,    \* the four arguments of each invocation
    pc,         \* where each invocation is: idle, call, bins, sum, div, done, thrown
    n,          \* the loop variable n
    spectrum,   \* std::vector<double> spectrum
    sum,        \* double sum
    NistAl,     \* the provider object and what it was asked
    reads       \* the array indices the last step used

vars == <<request, pc, n, spectrum, sum, NistAl, reads>>

\* Mutant of BinLoopEnd: the bin loop runs one iteration too far (n <= 151).
BinLoopEndOff == 151 + 1

\* The loop ends as written: n < 151, n < 150, n < 151.
BinLoopEnd == 151
SumLoopEnd == 150
DivLoopEnd == 151

NoReads == [term |-> {}, coef |-> {}, spec |-> {}]

\* Mutant of EnergyMeV: the bin index is passed on in keV, undivided.
EnergyKeV(k) == <<k, 1>>

\* energy = double(n) / 1000.0, as the pair <<n, 1000>>.
EnergyMeV(k) == <<k, KeVPerMeV>>

\* num_polynomial_terms[k]: the possible values of the read (any, out of bounds).
TermsRead(k) ==
    IF k \in 0 .. (NumBins - 1) THEN {num_polynomial_terms[k + 1]} ELSE 0 .. MaxTerms

\* polynomial_coefficients[4*k+t] for t < d: the possible values of the reads.
CoefsRead(k, d) ==
    IF (MaxTerms * k >= 0) /\ (MaxTerms * k + d - 1 <= MaxTerms * NumBins - 1)
    THEN {[t \in 0 .. (d - 1) |-> CoefTable[MaxTerms * k + t]]}
    ELSE {[t \in 0 .. (d - 1) |-> Zero], [t \in 0 .. (d - 1) |-> One]}

\* spectrum[k]: the possible values of the read.
SpectrumRead(s, k) ==
    IF k \in 0 .. (Len(s) - 1) THEN {s[k + 1]} ELSE {Finite(Zero), Finite(One)}

RECURSIVE PolySum(_, _, _, _, _)
\* for(t = 0; t < d; t++) sum += c[t] * pow(tube_potential, t), from acc.
PolySum(c, d, kv, t, acc) ==
    IF t >= d THEN acc ELSE PolySum(c, d, kv, t + 1, Add(acc, MulPow(c[t], kv, t)))

\* sum * exp(-mu*mm_filtration*0.1) = sum * 2^-(mu*mm/10), in units of 1/Scale.
Attenuate(x, mu, mm) == MulPow(x, 2, AttenShift - ((mu * mm) \div MmPerCm))

\* Mutant of TrapezoidTerm: the halving is left out.
TrapezoidNoHalf(a, b) == Add(a[1], b[1])

\* (spectrum[n] + spectrum[n+1]) / 2.0
TrapezoidTerm(a, b) == Half(Add(a[1], b[1]))

\* Mutant of PushZero: the zero branch continues without pushing.
PushNothing(s) == s

\* spectrum.push_back(0.0)
PushZero(s) == Append(s, Finite(Zero))

\* Mutant of SumOwner: `sum' is static, one for all invocations.
SharedSum(i) == 1

\* `sum' is a local of automatic storage: each invocation has its own.
SumOwner(i) == i

\* Mutant of LookupFailure: the failure is caught and the bin defaults to zero.
LookupFailureIgnored(i) ==
    [pc |-> "bins", n |-> n[i] + 1, spectrum |-> Append(spectrum[i], Finite(Zero))]

\* A failed LinearAttenuation leaves Tasmip at once: nothing catches it.
LookupFailure(i) == [pc |-> "thrown", n |-> n[i], spectrum |-> spectrum[i]]

\* NistPad NistAl(folder, filter_material);
Bind(i) ==
    /\ pc[i] = "call"
    /\ LET ok == Resolves(request[i].folder, request[i].filter_material)
       IN  /\ NistAl' = [NistAl EXCEPT ![i] =
                 [bound |-> ok, binds |-> @.binds + 1, failed |-> ~ok, queries |-> <<>>]]
           /\ pc' = [pc EXCEPT ![i] = IF ok THEN "bins" ELSE "thrown"]
    /\ n' = [n EXCEPT ![i] = 0]
    /\ UNCHANGED <<request, spectrum, sum, reads>>

\* One iteration of the bin loop taking the zero branch.
BinZero(i) ==
    /\ pc[i] = "bins"
    /\ n[i] < BinLoopEnd
    /\ \E d \in TermsRead(n[i]) :
          /\ (d = 0) \/ (n[i] >= request[i].tube_potential)
          /\ spectrum' = [spectrum EXCEPT ![i] = PushZero(@)]
    /\ n' = [n EXCEPT ![i] = @ + 1]
    /\ reads' = [reads EXCEPT ![i] = [NoReads EXCEPT !.term = {n[i]}]]
    /\ UNCHANGED <<request, pc, sum, NistAl>>

\* One iteration of the bin loop whose attenuation query fails.
BinQueryFail(i) ==
    /\ pc[i] = "bins"
    /\ n[i] < BinLoopEnd
    /\ \E d \in TermsRead(n[i]) :
          ~((d = 0) \/ (n[i] >= request[i].tube_potential))
    /\ ~Supported(request[i].filter_material, EnergyMeV(n[i]))
    /\ NistAl' = [NistAl EXCEPT ![i].queries =
                     Append(@, [energy |-> EnergyMeV(n[i]), ok |-> FALSE])]
    /\ LET out == LookupFailure(i)
       IN  /\ pc' = [pc EXCEPT ![i] = out.pc]
           /\ n' = [n EXCEPT ![i] = out.n]
           /\ spectrum' = [spectrum EXCEPT ![i] = out.spectrum]
    /\ reads' = [reads EXCEPT ![i] = [NoReads EXCEPT !.term = {n[i]}]]
    /\ UNCHANGED <<request, sum>>

\* One iteration of the bin loop computing the bin's value.
BinCompute(i) ==
    /\ pc[i] = "bins"
    /\ n[i] < BinLoopEnd
    /\ Supported(request[i].filter_material, EnergyMeV(n[i]))
    /\ \E d \in TermsRead(n[i]) :
          /\ ~((d = 0) \/ (n[i] >= request[i].tube_potential))
          /\ \E c \in CoefsRead(n[i], d) :
                LET mu == LinearAttenuation(request[i].filter_material, EnergyMeV(n[i]))
                    poly == PolySum(c, d, request[i].tube_potential, 0, Zero)
                IN  /\ sum' = [sum EXCEPT ![SumOwner(i)] = poly]
                    /\ spectrum' = [spectrum EXCEPT ![i] =
                          Append(@, Finite(Attenuate(poly, mu, request[i].mm_filtration)))]
          /\ reads' = [reads EXCEPT ![i] =
                [term |-> {n[i]},
                 coef |-> {MaxTerms * n[i] + t : t \in 0 .. (d - 1)},
                 spec |-> {}]]
    /\ NistAl' = [NistAl EXCEPT ![i].queries =
                     Append(@, [energy |-> EnergyMeV(n[i]), ok |-> TRUE])]
    /\ n' = [n EXCEPT ![i] = @ + 1]
    /\ UNCHANGED <<request, pc>>

\* The bin loop ends; sum = 0.0 and the trapezoid loop starts.
BinsDone(i) ==
    /\ pc[i] = "bins"
    /\ ~(n[i] < BinLoopEnd)
    /\ pc' = [pc EXCEPT ![i] = "sum"]
    /\ sum' = [sum EXCEPT ![SumOwner(i)] = Zero]
    /\ n' = [n EXCEPT ![i] = 0]
    /\ reads' = [reads EXCEPT ![i] = NoReads]
    /\ UNCHANGED <<request, spectrum, NistAl>>

\* sum += (spectrum[n] + spectrum[(n+1)]) / 2.0
SumStep(i) ==
    /\ pc[i] = "sum"
    /\ n[i] < SumLoopEnd
    /\ \E a \in SpectrumRead(spectrum[i], n[i]), b \in SpectrumRead(spectrum[i], n[i] + 1) :
          sum' = [sum EXCEPT ![SumOwner(i)] = Add(@, TrapezoidTerm(a, b))]
    /\ n' = [n EXCEPT ![i] = @ + 1]
    /\ reads' = [reads EXCEPT ![i] = [NoReads EXCEPT !.spec = {n[i], n[i] + 1}]]
    /\ UNCHANGED <<request, pc, spectrum, NistAl>>

\* The trapezoid loop ends and the division loop starts.
SumDone(i) ==
    /\ pc[i] = "sum"
    /\ ~(n[i] < SumLoopEnd)
    /\ pc' = [pc EXCEPT ![i] = "div"]
    /\ n' = [n EXCEPT ![i] = 0]
    /\ reads' = [reads EXCEPT ![i] = NoReads]
    /\ UNCHANGED <<request, spectrum, sum, NistAl>>

\* spectrum[n] /= sum
DivStep(i) ==
    /\ pc[i] = "div"
    /\ n[i] < DivLoopEnd
    /\ n[i] < Len(spectrum[i])
    /\ spectrum' = [spectrum EXCEPT ![i][n[i] + 1] = Divide(@, sum[SumOwner(i)])]
    /\ n' = [n EXCEPT ![i] = @ + 1]
    /\ reads' = [reads EXCEPT ![i] = [NoReads EXCEPT !.spec = {n[i]}]]
    /\ UNCHANGED <<request, pc, sum, NistAl>>

\* return spectrum;
Return(i) ==
    /\ pc[i] = "div"
    /\ ~(n[i] < DivLoopEnd)
    /\ pc' = [pc EXCEPT ![i] = "done"]
    /\ reads' = [reads EXCEPT ![i] = NoReads]
    /\ UNCHANGED <<request, n, spectrum, sum, NistAl>>

Next ==
    \E i \in Inv :
        \/ Bind(i)
        \/ BinZero(i)
        \/ BinQueryFail(i)
        \/ BinCompute(i)
        \/ BinsDone(i)
        \/ SumStep(i)
        \/ SumDone(i)
        \/ DivStep(i)
        \/ Return(i)

----------------------------------------------------------------------------
(* Requests                                                                *)

Potentials == ((0 - NegPotentials) .. MaxPotential) \cup {FarPotential}

SamplePotentials == {0, 10, 11, 14, 30, 80, 150}

Filtrations == {c * MmPerCm : c \in (0 - MaxFiltrationCm) .. MaxFiltrationCm}

Materials == {"Al", "Sn", "Xx"}

Request(kv, mm, material, fold) ==
    [tube_potential |-> kv, mm_filtration |-> mm, filter_material |-> material,
     folder |-> fold]

Requests ==
    {Request(kv, 0, "Al", DataFolder) : kv \in Potentials}
    \cup {Request(kv, mm, m, DataFolder) :
             kv \in SamplePotentials \cup {FarPotential}, mm \in Filtrations, m \in Materials}
    \cup {Request(80, 0, "Al", "none")}

NotCalled == Request(0, 0, "Al", DataFolder)

Fresh == [bound |-> FALSE, binds |-> 0, failed |-> FALSE, queries |-> <<>>]

InitLocals ==
    /\ n = [i \in Inv |-> 0]
    /\ spectrum = [i \in Inv |-> <<>>]
    /\ sum = [i \in Inv |-> Zero]
    /\ NistAl = [i \in Inv |-> Fresh]
    /\ reads = [i \in Inv |-> NoReads]

\* One invocation, of any request.
Init ==
    /\ \E r \in Requests : request = [i \in Inv |-> IF i = 1 THEN r ELSE NotCalled]
    /\ pc = [i \in Inv |-> IF i = 1 THEN "call" ELSE "idle"]
    /\ InitLocals

Spec == Init /\ [][Next]_vars

\* Two concurrent invocations with independent requests: each either runs
\* to its return, or fails at its first query, or fails to bind.
FirstRequests ==
    {Request(80, 10, "Al", DataFolder), Request(80, 0, "Sn", DataFolder),
     Request(80, 0, "Xx", DataFolder)}

SecondRequests ==
    {Request(30, 0, "Al", DataFolder), Request(80, 0, "Sn", DataFolder),
     Request(80, 0, "Xx", DataFolder)}

InitPar ==
    /\ \E r1 \in FirstRequests, r2 \in SecondRequests :
          request = [i \in Inv |-> IF i = 1 THEN r1 ELSE r2]
    /\ pc = [i \in Inv |-> "call"]
    /\ InitLocals

SpecPar == InitPar /\ [][Next]_vars

----------------------------------------------------------------------------
(* The routine as a function of its request, for reference                 *)

\* The request is inside the domain the routine is specified for.
ValidRequest(r) ==
    /\ r.tube_potential \in 0 .. (NumBins - 1)
    /\ r.mm_filtration >= 0

\* Bin k is computed rather than set to zero.
Eligible(k, kv) == (num_polynomial_terms[k + 1] # 0) /\ (k < kv)

\* The ascending bins below m that are computed.
EligibleBelow(m, kv) == SelectSeq([j \in 1 .. m |-> j - 1], LAMBDA k : Eligible(k, kv))

\* The polynomial of bin k, before attenuation.
Poly(r, k) ==
    PolySum([t \in 0 .. (MaxTerms - 1) |-> CoefTable[MaxTerms * k + t]],
            num_polynomial_terms[k + 1], r.tube_potential, 0, Zero)

RECURSIVE LastEligible(_, _)
\* The highest computed bin at or below k, or -1 when there is none.
LastEligible(k, kv) ==
    IF k < 0 THEN -1 ELSE IF Eligible(k, kv) THEN k ELSE LastEligible(k - 1, kv)

\* What `sum' holds in the bin loop at n = m: the polynomial of the last
\* computed bin below m, if any.
LastPoly(r, m) ==
    LET k == LastEligible((IF m < r.tube_potential THEN m ELSE r.tube_potential) - 1,
                          r.tube_potential)
    IN  IF k < 0 THEN Zero ELSE Poly(r, k)

\* The value pushed for bin k, before normalization.
PreBin(r, k) ==
    IF ~Eligible(k, r.tube_potential)
    THEN Zero
    ELSE Attenuate(Poly(r, k), LinearAttenuation(r.filter_material, <<k, 1000>>),
                   r.mm_filtration)

PreSpectrum(r) == [k \in 1 .. NumBins |-> PreBin(r, k - 1)]

RECURSIVE RangeSum(_, _, _)
\* The sum over j in lo .. hi of p[j] + p[j+1], by halving the range.
RangeSum(p, lo, hi) ==
    IF lo > hi THEN Zero
    ELSE IF lo = hi THEN Add(p[lo], p[lo + 1])
    ELSE LET mid == (lo + hi) \div 2
         IN  Add(RangeSum(p, lo, mid), RangeSum(p, mid + 1, hi))

\* The sum of p[j] + p[j+1] over adjacent pairs: twice the trapezoidal integral.
PairSums(p) == RangeSum(p, 1, Len(p) - 1)

\* The call fails when run alone: the provider cannot bind or answer.
AloneFails(r) ==
    \/ ~Resolves(r.folder, r.filter_material)
    \/ \E k \in 0 .. (NumBins - 1) :
          Eligible(k, r.tube_potential) /\ ~Supported(r.filter_material, <<k, 1000>>)

\* The spectrum the call returns when run alone.
AloneResult(r) ==
    LET p == PreSpectrum(r)
        total == Half(RangeSum(p, 1, NumBins - 1))
    IN  [k \in 1 .. NumBins |-> <<p[k], total>>]

Numerators(s) == [k \in 1 .. Len(s) |-> s[k][1]]

----------------------------------------------------------------------------
(* Claims                                                                  *)

\* C1: every spectrum the routine returns has exactly 151 entries, whatever
\* the request and the provider's answers: each iteration of the bin loop
\* appends exactly one entry, and normalization keeps the length.
SpectrumHas151Entries ==
    \A i \in Inv :
        /\ pc[i] \in {"bins", "thrown"} => Len(spectrum[i]) = n[i]
        /\ pc[i] \in {"sum", "div", "done"} => Len(spectrum[i]) = 151

\* C1 witness: a spectrum of 151 entries is returned for an out-of-domain potential.
ReturnedFarSpectrum ==
    /\ pc[1] = "done"
    /\ request[1].tube_potential = FarPotential
    /\ Len(spectrum[1]) = 151

\* C2: when the trapezoidal total is non-zero, every returned bin is the
\* pre-normalization bin over that one total, and the trapezoidal integral
\* of the returned sequence is 1.
NormalizedByTotal ==
    \A i \in Inv :
        (pc[i] = "done" /\ sum[i] # Zero) =>
            /\ \A k \in 1 .. 151 :
                  /\ spectrum[i][k][2] = sum[i]
                  /\ spectrum[i][k][1] = PreBin(request[i], k - 1)
            /\ PairSums(Numerators(spectrum[i])) = MulInt(sum[i], 2)

\* C2 witness: a filtered 80 kV spectrum is returned with a non-zero total.
ReturnedNormalized ==
    /\ pc[1] = "done"
    /\ sum[1] # Zero
    /\ request[1].tube_potential = 80
    /\ request[1].mm_filtration = 10
    /\ spectrum[1][41][1] # Zero

\* C3 (as claimed): for a valid request, every returned bin at or above the
\* tube potential, and every bin of table degree 0, is 0.
ZeroOutsidePotential ==
    \A i \in Inv :
        (pc[i] = "done" /\ ValidRequest(request[i])) =>
            \A k \in 0 .. 150 :
                ~Eligible(k, request[i].tube_potential) => IsZero(spectrum[i][k + 1])

\* C4 (as claimed): for a tube potential in 11..150 without filtration, every
\* returned entry is >= 0.
NonNegativeUnfiltered ==
    \A i \in Inv :
        (/\ pc[i] = "done"
         /\ request[i].tube_potential \in 11 .. 150
         /\ request[i].mm_filtration = 0) =>
            \A k \in 1 .. 151 :
                IsFinite(spectrum[i][k]) /\ ~IsNegative(spectrum[i][k])

\* C5 (as claimed): a zero trapezoidal total ends the call before any
\* division, and no returned spectrum holds a NaN or an infinity.
ZeroTotalIsAnError ==
    \A i \in Inv :
        /\ pc[i] \in {"div", "done"} => sum[i] # Zero
        /\ pc[i] = "done" => \A k \in 1 .. Len(spectrum[i]) : IsFinite(spectrum[i][k])

\* C6 (as claimed): a request outside the domain is rejected before the
\* provider is bound or queried, a table is read or a bin is computed.
InvalidRequestRejected ==
    \A i \in Inv :
        (pc[i] # "idle" /\ ~ValidRequest(request[i])) =>
            /\ pc[i] \in {"call", "thrown"}
            /\ NistAl[i] = Fresh
            /\ spectrum[i] = <<>>
            /\ reads[i] = NoReads

\* C7: a failed binding, or a failed attenuation query, ends the call with
\* the failure: the failed query is the last one and was asked once, the
\* failed bin and the bins after it are not produced, nothing is returned.
LookupFailureEndsCall ==
    \A i \in Inv :
        LET log == NistAl[i].queries
        IN  /\ NistAl[i].failed =>
                 pc[i] = "thrown" /\ log = <<>> /\ spectrum[i] = <<>>
            /\ \A q \in 1 .. Len(log) :
                 ~log[q].ok =>
                    /\ pc[i] = "thrown"
                    /\ q = Len(log)
                    /\ Len(spectrum[i]) = n[i]
                    /\ log[q].energy[1] * 1000 = n[i] * log[q].energy[2]
                    /\ \A p \in 1 .. (q - 1) : log[p].energy # log[q].energy

\* C7 witness: a query failed at bin 10 after the binding succeeded.
QueryFailedAtFirstBin ==
    /\ pc[1] = "thrown"
    /\ NistAl[1].bound
    /\ Len(NistAl[1].queries) = 1
    /\ ~NistAl[1].queries[1].ok
    /\ n[1] = 10
    /\ Len(spectrum[1]) = 10

\* C8: under any interleaving of two invocations, each ends as it would
\* when run alone, with the same spectrum, and on the way its `sum' holds
\* what its own steps put there: no invocation reads what another wrote.
ParallelAsAlone ==
    \A i \in Inv :
        LET nums == Numerators(spectrum[i])
        IN  /\ pc[i] = "thrown" => AloneFails(request[i])
            /\ pc[i] = "bins" => sum[i] = LastPoly(request[i], n[i])
            /\ pc[i] = "sum" => MulInt(sum[i], 2) = RangeSum(nums, 1, n[i])
            /\ (pc[i] = "div" /\ n[i] > 0) => spectrum[i][n[i]][2] = sum[i]
            /\ pc[i] = "done" =>
                  ~AloneFails(request[i]) /\ spectrum[i] = AloneResult(request[i])

\* C8 witness: two invocations with different requests have both returned.
BothReturned ==
    /\ pc[1] = "done"
    /\ pc[2] = "done"
    /\ request[1] # request[2]
    /\ sum[1] # sum[2]

\* C9: the provider is bound once; it is queried once for each computed
\* bin, in ascending order, at n/1000 MeV, and for no other bin; the total
\* is computed only when all 151 bins are there.
ProviderProtocol ==
    \A i \in Inv :
        LET log == NistAl[i].queries
            asked == EligibleBelow(IF pc[i] = "thrown" /\ NistAl[i].bound
                                   THEN n[i] + 1 ELSE Len(spectrum[i]),
                                   request[i].tube_potential)
        IN  /\ NistAl[i].binds = (IF pc[i] \in {"idle", "call"} THEN 0 ELSE 1)
            /\ Len(log) = Len(asked)
            /\ \A q \in 1 .. Len(log) :
                  log[q].energy[1] * 1000 = asked[q] * log[q].energy[2]
            /\ pc[i] \in {"sum", "div", "done"} => Len(spectrum[i]) = 151

\* C9 witness: an 80 kV call returned after its 70 queries, bins 10..79.
ReturnedAfterSeventyQueries ==
    /\ pc[1] = "done"
    /\ request[1].tube_potential = 80
    /\ request[1].mm_filtration = 0
    /\ Len(NistAl[1].queries) = 70
    /\ NistAl[1].queries[70].energy = <<79, 1000>>

\* C10: for every tube potential, in the domain or not, every index used is
\* in range: the term counts at 0..150, the coefficients at 0..603, the
\* spectrum at 0..150.
IndicesInRange ==
    \A i \in Inv :
        /\ reads[i].term \subseteq 0 .. 150
        /\ reads[i].coef \subseteq 0 .. 603
        /\ reads[i].spec \subseteq 0 .. 150
        /\ reads[i].spec \subseteq 0 .. (Len(spectrum[i]) - 1)

\* C10 witness: at 200 kV the last computed bin, 140, reads coefficient 560.
FarPotentialReadsLastBin ==
    /\ request[1].tube_potential = FarPotential
    /\ pc[1] = "bins"
    /\ reads[1].term = {140}
    /\ reads[1].coef = {560}

====
